---- MODULE Spec2Model ----
(***************************************************************************)
(* go-certbot-cloudflare: the certbot manual-auth / manual-cleanup hook.   *)
(* The model follows main() (src/unnamed/part_000, the variant with the    *)
(* renewal-credentials flags; src/main.go has the same zone and polling    *)
(* loops and differs in the challenge record name, see build) and          *)
(* lookupCompareTXT / strSliceLookup (src/helpers.go).                     *)
(*                                                                         *)
(* Strings that the code cuts by byte position (the domain names) are      *)
(* sequences of one-character strings; a Go slice is a record              *)
(* [nil, elems] so that a nil slice and an empty slice stay distinct.      *)
(***************************************************************************)
EXTENDS Integers, Sequences, FiniteSets, TLC

VARIABLES
    build,              \* which of the two mains runs: src/main.go or src/unnamed/part_000
    pc,                 \* position of main()
    failure,            \* the "[error] ..." line main printed before returning, or "none"
    cleanup,            \* flag -cleanup
    saveRenewCreds,     \* flag -save-renew-creds (after line 29-31)
    onlySaveRenewCreds, \* flag -only-save-renew-creds
    domain,             \* CERTBOT_DOMAIN
    registered,         \* names of the active zones of the Cloudflare account
    zoneDomain,         \* the name the zone loop asks for
    zoneQueries,        \* the names asked for so far, in order
    zonesResult,        \* zonesRes.Result: empty, or the one zone the provider returned
    subdomain,          \* the challenge record name
    rs1, rs2,           \* the nameserver each resolver dials
    wg,                 \* the WaitGroup counter of the lookupCompareTXT call in progress
    t1, t2,             \* position of each query goroutine
    res1, err1,         \* result/error slot of goroutine 1
    res2, err2,         \* result/error slot of goroutine 2
    dnsRes, err,        \* what main got back from the last lookupCompareTXT
    attempts,           \* the polling loop's counter
    records,            \* recordsRes.Result of the cleanup listing (record ids)
    delIdx,             \* index i of the cleanup delete loop
    deleteReqs,         \* the record ids delete requests were issued for, in order
    poller,             \* state of the polling loop: none/Checking/WaitingRetry/Converged/GivenUp
    lookups,            \* number of polling lookups started
    delays,             \* number of one-second sleeps taken by the polling loop
    retried,            \* number of polling lookups whose outcome led to a retry
    slotReads,          \* how often main read the slots while a goroutine was still running
    queried,            \* the nameservers the TXT queries were sent to
    apiCalls,           \* provider requests issued: [list, create, delete] counts
    dnsCalls,           \* number of lookupCompareTXT calls started
    saved,              \* the credentials were written to the renewal file
    deadline,           \* the 10 s context of the call in progress: none/running/elapsed
    namesUsed,          \* <<request, name>>: the record names handed to lookups and to the provider
    lastReply           \* how the provider answered the latest request

vars == <<build, pc, failure, cleanup, saveRenewCreds, onlySaveRenewCreds, domain,
          registered, zoneDomain, zoneQueries, zonesResult, subdomain, rs1, rs2,
          wg, t1, t2, res1, err1, res2, err2, dnsRes, err, attempts, records,
          delIdx, deleteReqs, poller, lookups, delays, retried, slotReads, queried,
          apiCalls, dnsCalls, saved, deadline, namesUsed, lastReply>>

-----------------------------------------------------------------------------
(* Bounds of the model *)

MaxTXT == 2         \* longest TXT answer of a nameserver
MaxNS == 3          \* most nameservers a zone lists
MaxRecords == 2     \* most records the cleanup listing returns
MaxDomainLen == 7   \* longest requested domain (characters) of the zone-lookup study

(* Program constants *)

MaxAttempts == 30   \* "if attempts > 30"
NumTasks == 2       \* wg.Add(2)

-----------------------------------------------------------------------------
(* Strings *)

Chars == {"a", "."}

\* strings.IndexByte: 0-based position of the first c in s, or -1
IndexByte(s, c) ==
    IF \E i \in 1..Len(s) : s[i] = c
    THEN (CHOOSE i \in 1..Len(s) : s[i] = c /\ \A j \in 1..(i-1) : s[j] # c) - 1
    ELSE -1

\* strings.LastIndexByte: 0-based position of the last c in s, or -1
LastIndexByte(s, c) ==
    IF \E i \in 1..Len(s) : s[i] = c
    THEN (CHOOSE i \in 1..Len(s) : s[i] = c /\ \A j \in (i+1)..Len(s) : s[j] # c) - 1
    ELSE -1

\* the Go slice expression s[from:]
SliceFrom(s, from) == SubSeq(s, from + 1, Len(s))

\* the Go slice expression s[:to]
SliceTo(s, to) == SubSeq(s, 1, to)

chRecName == <<"_acme-challenge">>

\* "*." + rest, the test of line 156: len(domain) > 2 && domain[:2] == "*."
IsWildcard(d) == Len(d) > 2 /\ SliceTo(d, 2) = <<"*", ".">>

\* lines 155-160: the challenge record name
ChallengeName(d) ==
    IF IsWildcard(d) THEN chRecName \o <<".">> \o SliceFrom(d, 2)
                     ELSE chRecName \o <<".">> \o d

\* the two mains of the repository
Builds == {"main.go", "part_000"}

\* main.go line 93 / part_000 lines 155-160: subdomain
Subdomain(b, d, zone) ==
    IF b = "main.go" THEN chRecName \o <<".">> \o zone ELSE ChallengeName(d)

\* main.go line 196 / part_000 line 263: the Name of the record-create request
CreateName(b, sub) == IF b = "main.go" THEN chRecName ELSE sub

-----------------------------------------------------------------------------
(* Go slices of strings, errors, and the answers of one nameserver *)

NilSlice == [nil |-> TRUE, elems |-> <<>>]
Slice(s) == [nil |-> FALSE, elems |-> s]

NoErr == "nil"
\* errors of net.Resolver.LookupTXT, by what main can tell apart:
\* a message with "no such host" in it, a timeout, any other failure
ErrNoSuchHost == "lookup: no such host"
ErrTimeout == "lookup: i/o timeout"
ErrOther == "lookup: server misbehaving"
ResolverErrors == {ErrNoSuchHost, ErrTimeout, ErrOther}

errInconsistent == "[error] Inconsistent record count from CF_NS1 and CF_NS2"
errNS1NoResponse == "[error] Nameserver from CF_NS1 did not respond"
errNS2NoResponse == "[error] Nameserver from CF_NS2 did not respond"

\* variant: any resolver error taken for "no such host"
ContainsNoSuchHost_AnyLookupError(e) == e \in {ErrNoSuchHost, ErrTimeout, ErrOther}

\* strings.Contains(err.Error(), "no such host")
ContainsNoSuchHost(e) == e = ErrNoSuchHost

vt == "token"                       \* CERTBOT_VALIDATION
Values == {vt, "other"}             \* TXT strings a nameserver may hold
TXTSeqs == UNION {[1..n -> Values] : n \in 0..MaxTXT}

\* what one LookupTXT call can hand back: values, no values (nil), or an error
Answers ==
    {[res |-> Slice(s), err |-> NoErr] : s \in TXTSeqs}
    \cup {[res |-> NilSlice, err |-> NoErr]}
    \cup {[res |-> NilSlice, err |-> e] : e \in ResolverErrors}

\* helpers.go strSliceLookup
strSliceLookup(haystack, needle) ==
    \E i \in 1..Len(haystack.elems) : haystack.elems[i] = needle

\* variants of the scan of lines 71-82: left out, and compared position by position
EachFoundIn_Skipped(a, b) == TRUE
EachFoundIn_SamePosition(a, b) ==
    \A i \in 1..Len(a.elems) : i <= Len(b.elems) /\ b.elems[i] = a.elems[i]

\* helpers.go lines 71-82: every element of a has an equal element in b
EachFoundIn(a, b) ==
    \A i \in 1..Len(a.elems) : \E j \in 1..Len(b.elems) : b.elems[j] = a.elems[i]

\* variant: the error of nameserver 2 is looked at first
CompareSlots_Err2First(r1, e1, r2, e2) ==
    IF e2 # NoErr THEN [res |-> NilSlice, err |-> e2]
    ELSE IF e1 # NoErr THEN [res |-> NilSlice, err |-> e1]
    ELSE IF r1.nil THEN [res |-> NilSlice, err |-> errNS1NoResponse]
    ELSE IF r2.nil THEN [res |-> NilSlice, err |-> errNS2NoResponse]
    ELSE IF Len(r1.elems) # Len(r2.elems) THEN [res |-> NilSlice, err |-> errInconsistent]
    ELSE IF ~EachFoundIn(r1, r2) THEN [res |-> NilSlice, err |-> errInconsistent]
    ELSE [res |-> r1, err |-> NoErr]

\* helpers.go lines 56-84: what lookupCompareTXT returns for the four slots
CompareSlots(r1, e1, r2, e2) ==
    IF e1 # NoErr THEN [res |-> NilSlice, err |-> e1]
    ELSE IF e2 # NoErr THEN [res |-> NilSlice, err |-> e2]
    ELSE IF r1.nil THEN [res |-> NilSlice, err |-> errNS1NoResponse]
    ELSE IF r2.nil THEN [res |-> NilSlice, err |-> errNS2NoResponse]
    ELSE IF Len(r1.elems) # Len(r2.elems) THEN [res |-> NilSlice, err |-> errInconsistent]
    ELSE IF ~EachFoundIn(r1, r2) THEN [res |-> NilSlice, err |-> errInconsistent]
    ELSE [res |-> r1, err |-> NoErr]

-----------------------------------------------------------------------------
(* The run: flags and environment *)

\* the requested domains of the whole-run specification
RunDomains == { <<"a", ".", "b", ".", "a">>, <<"*", ".", "b", ".", "a">> }
\* every string of at most MaxDomainLen characters
AllDomains == UNION {[1..n -> Chars] : n \in 0..MaxDomainLen}

\* the names the zone loop can ask for: d and what is left after each "."
DotSuffixes(d) == {d} \cup {SliceFrom(d, i) : i \in {j \in 1..Len(d) : d[j] = "."}}

\* the hostnames a zone lists, in the order of the response
NSNames == [i \in 1..MaxNS |-> <<"ns", i>>]
NoNS == <<>>   \* no resolver built yet

NoCalls == [list |-> 0, create |-> 0, delete |-> 0]

InitRun ==
    /\ build \in Builds
    /\ pc = "start"
    /\ failure = "none"
    /\ cleanup \in BOOLEAN
    /\ onlySaveRenewCreds \in BOOLEAN
    /\ saveRenewCreds \in BOOLEAN
    \* main.go has no renewal-credentials flags
    /\ build = "main.go" => (~onlySaveRenewCreds /\ ~saveRenewCreds)
    /\ zoneDomain = <<>>
    /\ zoneQueries = <<>>
    /\ zonesResult = <<>>
    /\ subdomain = <<>>
    /\ rs1 = NoNS /\ rs2 = NoNS
    /\ wg = 0 /\ t1 = "none" /\ t2 = "none"
    /\ res1 = NilSlice /\ err1 = NoErr
    /\ res2 = NilSlice /\ err2 = NoErr
    /\ dnsRes = NilSlice /\ err = NoErr
    /\ attempts = 0
    /\ records = <<>>
    /\ delIdx = 0
    /\ deleteReqs = <<>>
    /\ poller = "none"
    /\ lookups = 0 /\ delays = 0 /\ retried = 0
    /\ slotReads = 0
    /\ queried = {}
    /\ apiCalls = NoCalls
    /\ dnsCalls = 0
    /\ saved = FALSE
    /\ deadline = "none"
    /\ namesUsed = {}
    /\ lastReply = "none"

UnchangedLookup ==
    UNCHANGED <<wg, t1, t2, res1, err1, res2, err2, queried, slotReads, deadline>>
UnchangedZone == UNCHANGED <<registered, zoneDomain, zoneQueries, zonesResult>>
UnchangedFlags == UNCHANGED <<build, cleanup, saveRenewCreds, onlySaveRenewCreds, domain>>
UnchangedPoll == UNCHANGED <<attempts, poller, lookups, delays, retried>>
UnchangedCleanup == UNCHANGED <<records, delIdx, deleteReqs>>

\* main returns after printing an "[error] ..." line
Fail(why) == pc' = "failed" /\ failure' = why

\* part_000 lines 20-102: flags, environment, renewal file, credentials
LoadConfig ==
    /\ pc = "start"
    /\ saveRenewCreds' = (saveRenewCreds \/ onlySaveRenewCreds)       \* lines 29-31
    /\ \/ /\ pc' = "zone" /\ failure' = failure
          /\ zoneDomain' = domain                                     \* line 106
       \/ /\ \E why \in {"env not set", "renewal file not found", "credentials"} : Fail(why)
          /\ zoneDomain' = zoneDomain
    /\ UNCHANGED <<build, cleanup, onlySaveRenewCreds, domain, registered, zoneQueries,
                   zonesResult, subdomain, rs1, rs2, dnsRes, err, apiCalls,
                   dnsCalls, saved, namesUsed, lastReply>>
    /\ UnchangedLookup /\ UnchangedPoll /\ UnchangedCleanup

\* variant: only the "no dot at all" test of line 140
LastSuffix_NoDotOnly(name) == IndexByte(name, ".") = -1

\* part_000 lines 138-140: the loop can cut no further label off name
LastSuffix(name) ==
    LET tldPos == LastIndexByte(name, ".")
        sldPos == IndexByte(name, ".")
    IN sldPos = tldPos \/ sldPos = -1

\* variant: cut at the last dot instead of the first
Truncate_AtLastDot(name) == SliceFrom(name, LastIndexByte(name, ".") + 1)

\* variant: the cut keeps the dot (zoneDomain[sldPos:])
Truncate_KeepsDot(name) == SliceFrom(name, IndexByte(name, "."))

\* part_000 line 144: zoneDomain[sldPos+1:]
Truncate(name) == SliceFrom(name, IndexByte(name, ".") + 1)

\* part_000 lines 107-149: one iteration of the zone loop, the provider's reply included
ZoneQuery ==
    /\ pc = "zone"
    /\ zoneQueries' = Append(zoneQueries, zoneDomain)                 \* cfGet "zones"
    /\ \/ /\ Fail("Cloudflare request failed")                        \* line 118
          /\ lastReply' = "request failed"
          /\ UNCHANGED <<zoneDomain, zonesResult>>
       \/ /\ Fail("Failed to decode Cloudflare response")             \* line 123
          /\ lastReply' = "undecodable"
          /\ UNCHANGED <<zoneDomain, zonesResult>>
       \/ /\ Fail("Failed to look up zone")                           \* line 127
          /\ lastReply' = "unsuccessful"
          /\ UNCHANGED <<zoneDomain, zonesResult>>
       \/ /\ zoneDomain \notin registered                             \* line 134
          /\ LastSuffix(zoneDomain)
          /\ Fail("Zone not found in Cloudflare account")
          /\ lastReply' = "ok"
          /\ UNCHANGED <<zoneDomain, zonesResult>>
       \/ /\ zoneDomain \notin registered
          /\ ~LastSuffix(zoneDomain)
          /\ zoneDomain' = Truncate(zoneDomain)
          /\ lastReply' = "ok"
          /\ UNCHANGED <<pc, failure, zonesResult>>
       \/ /\ zoneDomain \in registered                                \* line 148
          /\ \E n \in 0..MaxNS :
                zonesResult' = <<[Name |-> zoneDomain, Nameservers |-> SubSeq(NSNames, 1, n)]>>
          /\ pc' = "nscheck"
          /\ lastReply' = "ok"
          /\ UNCHANGED <<failure, zoneDomain>>
    /\ UNCHANGED <<registered, subdomain, rs1, rs2, dnsRes, err, apiCalls, dnsCalls, saved,
                   namesUsed>>
    /\ UnchangedFlags /\ UnchangedLookup /\ UnchangedPoll /\ UnchangedCleanup

\* part_000 line 150: len(zonesRes.Result[0].Nameservers) < 2
TooFewNameservers(result) == Len(result[1].Nameservers) < 2

\* part_000 lines 150-162, 214: the nameserver count, the record name, the mode
CheckNameservers ==
    /\ pc = "nscheck"
    /\ IF TooFewNameservers(zonesResult)
       THEN /\ Fail("Could not find two or more nameservers in zone")
            /\ subdomain' = subdomain
       ELSE /\ subdomain' = Subdomain(build, domain, zoneDomain)
            /\ pc' = IF cleanup THEN "list"
                     ELSE IF ~onlySaveRenewCreds THEN "resolve" ELSE "save"
            /\ failure' = failure
    /\ UNCHANGED <<rs1, rs2, dnsRes, err, apiCalls, dnsCalls, saved, namesUsed, lastReply>>
    /\ UnchangedFlags /\ UnchangedZone /\ UnchangedLookup /\ UnchangedPoll
    /\ UnchangedCleanup

Bump(calls, what) == [calls EXCEPT ![what] = @ + 1]

-----------------------------------------------------------------------------
(* Cleanup mode, part_000 lines 162-213 *)

RecordIDs == [i \in 1..MaxRecords |-> <<"rec", i>>]

\* lines 167-190: the record listing. The error of cfGet is not looked at:
\* a failed request leaves httpRes nil and httpRes.Body panics.
ListRecords ==
    /\ pc = "list"
    /\ apiCalls' = Bump(apiCalls, "list")
    /\ namesUsed' = namesUsed \cup {<<"list", subdomain>>}           \* line 169
    /\ \/ /\ pc' = "panic"                                            \* line 175
          /\ lastReply' = "request failed"
          /\ UNCHANGED <<failure, records>>
       \/ /\ Fail("Failed to decode Cloudflare response")             \* line 176
          /\ lastReply' = "undecodable"
          /\ UNCHANGED records
       \/ /\ \E n \in 0..MaxRecords : records' = SubSeq(RecordIDs, 1, n)
          /\ pc' = IF Len(records') = 0 THEN "done" ELSE "delete"     \* lines 180-185
          /\ lastReply' = "ok"
          /\ failure' = failure
    /\ delIdx' = 0
    /\ UNCHANGED <<subdomain, rs1, rs2, dnsRes, err, dnsCalls, saved, deleteReqs>>
    /\ UnchangedFlags /\ UnchangedZone /\ UnchangedLookup /\ UnchangedPoll

\* variant: the loop walks the list from its end
NextToDelete_FromEnd(result, i) == result[Len(result) - i]

\* lines 191, 195: recordsRes.Result[i].ID for the i of `for i := range` (from 0)
NextToDelete(result, i) == result[i + 1]

\* lines 191-213: one iteration of the delete loop, for recordsRes.Result[delIdx]
DeleteRecord ==
    /\ pc = "delete"
    /\ delIdx < Len(records)
    /\ apiCalls' = Bump(apiCalls, "delete")
    /\ deleteReqs' = Append(deleteReqs, NextToDelete(records, delIdx))  \* line 195
    /\ \/ /\ Fail("Cloudflare request failed")                        \* line 196
          /\ lastReply' = "request failed"
          /\ UNCHANGED delIdx
       \/ /\ Fail("Failed to decode Cloudflare response")             \* line 202
          /\ lastReply' = "undecodable"
          /\ UNCHANGED delIdx
       \/ /\ Fail("Failed to delete challenge record")                \* line 206
          /\ lastReply' = "unsuccessful"
          /\ UNCHANGED delIdx
       \/ /\ delIdx' = delIdx + 1
          /\ pc' = IF delIdx' = Len(records) THEN "save" ELSE "delete"
          /\ lastReply' = "ok"
          /\ failure' = failure
    /\ UNCHANGED <<records, subdomain, rs1, rs2, dnsRes, err, dnsCalls, saved, namesUsed>>
    /\ UnchangedFlags /\ UnchangedZone /\ UnchangedLookup /\ UnchangedPoll

-----------------------------------------------------------------------------
(* lookupCompareTXT, helpers.go lines 36-85 *)

\* lines 37-52: fresh slots, wg.Add(2), both goroutines started
Launch ==
    /\ wg' = NumTasks
    /\ t1' = "query" /\ t2' = "query"
    /\ res1' = NilSlice /\ err1' = NoErr
    /\ res2' = NilSlice /\ err2' = NoErr
    /\ dnsCalls' = dnsCalls + 1
    /\ deadline' = "running"                                          \* line 42
    /\ UNCHANGED <<queried, slotReads>>

\* lines 42-50: what a LookupTXT under the shared context hands back: whatever the
\* nameserver answers while the context is live, a timeout once its deadline has elapsed
QueryResults(dl) ==
    IF dl = "elapsed" THEN {[res |-> NilSlice, err |-> ErrTimeout]} ELSE Answers

\* line 42: the 10 s of context.WithTimeout are over while a query is still out (once both
\* queries have returned nothing reads the context any more)
DeadlineElapses ==
    /\ deadline = "running"
    /\ t1 = "query" \/ t2 = "query"
    /\ deadline' = "elapsed"
    /\ UNCHANGED <<pc, failure, subdomain, rs1, rs2, wg, t1, t2, res1, err1, res2, err2,
                   dnsRes, err, slotReads, queried, apiCalls, dnsCalls, saved,
                   namesUsed, lastReply>>
    /\ UnchangedFlags /\ UnchangedZone /\ UnchangedPoll /\ UnchangedCleanup

\* line 46: res1, err1 = rs1.LookupTXT(ctx, name)
Task1Query ==
    /\ t1 = "query"
    /\ \E a \in QueryResults(deadline) : res1' = a.res /\ err1' = a.err
    /\ queried' = queried \cup {rs1}
    /\ t1' = "signal"
    /\ UNCHANGED <<pc, failure, subdomain, rs1, rs2, wg, t2, res2, err2, dnsRes, err,
                   slotReads, apiCalls, dnsCalls, saved, deadline, namesUsed, lastReply>>
    /\ UnchangedFlags /\ UnchangedZone /\ UnchangedPoll /\ UnchangedCleanup

\* line 47: wg.Done()
Task1Done ==
    /\ t1 = "signal"
    /\ wg' = wg - 1
    /\ t1' = "exit"
    /\ UNCHANGED <<pc, failure, subdomain, rs1, rs2, t2, res1, err1, res2, err2,
                   dnsRes, err, slotReads, queried, apiCalls, dnsCalls, saved,
                   deadline, namesUsed, lastReply>>
    /\ UnchangedFlags /\ UnchangedZone /\ UnchangedPoll /\ UnchangedCleanup

\* line 50: res2, err2 = rs2.LookupTXT(ctx, name)
Task2Query ==
    /\ t2 = "query"
    /\ \E a \in QueryResults(deadline) : res2' = a.res /\ err2' = a.err
    /\ queried' = queried \cup {rs2}
    /\ t2' = "signal"
    /\ UNCHANGED <<pc, failure, subdomain, rs1, rs2, wg, t1, res1, err1, dnsRes, err,
                   slotReads, apiCalls, dnsCalls, saved, deadline, namesUsed, lastReply>>
    /\ UnchangedFlags /\ UnchangedZone /\ UnchangedPoll /\ UnchangedCleanup

\* line 51: wg.Done()
Task2Done ==
    /\ t2 = "signal"
    /\ wg' = wg - 1
    /\ t2' = "exit"
    /\ UNCHANGED <<pc, failure, subdomain, rs1, rs2, t1, res1, err1, res2, err2,
                   dnsRes, err, slotReads, queried, apiCalls, dnsCalls, saved,
                   deadline, namesUsed, lastReply>>
    /\ UnchangedFlags /\ UnchangedZone /\ UnchangedPoll /\ UnchangedCleanup

\* variant: the join lets main go on when one goroutine has signalled
WaitPasses_AfterOne == wg <= 1

\* line 53: wg.Wait() returns
WaitPasses == wg = 0

\* lines 53-85 seen from the caller: the join, then the comparison of the slots;
\* slotReads counts a read of the slots made while a goroutine had not exited
Return(r) ==
    /\ WaitPasses
    /\ r = CompareSlots(res1, err1, res2, err2)
    /\ slotReads' = slotReads + (IF t1 = "exit" /\ t2 = "exit" THEN 0 ELSE 1)
    /\ deadline' = "none"                                             \* line 54: cancel()
    /\ UNCHANGED <<wg, t1, t2, res1, err1, res2, err2, queried>>

-----------------------------------------------------------------------------
(* Authentication mode, part_000 lines 214-319 *)

\* lines 216 and 230: the nameserver each resolver is built for
Addr1(result) == result[1].Nameservers[1]
\* variant: the second resolver built for the first nameserver again
Addr2_SameAsFirst(result) == result[1].Nameservers[1]
Addr2(result) == result[1].Nameservers[2]

\* lines 215-241: both nameserver addresses resolved, both resolvers built
ResolveNameservers ==
    /\ pc = "resolve"
    /\ \/ /\ Fail("Could not resolve nameserver in CF_NS1")           \* line 217
          /\ UNCHANGED <<rs1, rs2>>
       \/ /\ Fail("Could not resolve nameserver in CF_NS2")           \* line 231
          /\ rs1' = Addr1(zonesResult)
          /\ UNCHANGED rs2
       \/ /\ rs1' = Addr1(zonesResult)
          /\ rs2' = Addr2(zonesResult)
          /\ pc' = "initcall"
          /\ failure' = failure
    /\ UNCHANGED <<subdomain, dnsRes, err, apiCalls, dnsCalls, saved, namesUsed, lastReply>>
    /\ UnchangedFlags /\ UnchangedZone /\ UnchangedLookup /\ UnchangedPoll
    /\ UnchangedCleanup

\* line 247: the initial lookup is started
InitialCall ==
    /\ pc = "initcall"
    /\ Launch
    /\ pc' = "initial"
    /\ namesUsed' = namesUsed \cup {<<"lookup", subdomain>>}
    /\ UNCHANGED <<failure, subdomain, rs1, rs2, dnsRes, err, apiCalls, saved, lastReply>>
    /\ UnchangedFlags /\ UnchangedZone /\ UnchangedPoll /\ UnchangedCleanup

\* variant: the initial lookup never counts as having found the record
AlreadyThere_Never(r) == FALSE

\* line 248: the expected record is already there
AlreadyThere(r) == r.err = NoErr /\ strSliceLookup(r.res, vt)

\* lines 247-253: the initial lookup returns
InitialReturn ==
    /\ pc = "initial"
    /\ \E r \in {CompareSlots(res1, err1, res2, err2)} :
          /\ Return(r)
          /\ dnsRes' = r.res /\ err' = r.err
          /\ pc' = IF AlreadyThere(r) THEN "done" ELSE "create"
    /\ UNCHANGED <<failure, subdomain, rs1, rs2, apiCalls, dnsCalls, saved, namesUsed,
                   lastReply>>
    /\ UnchangedFlags /\ UnchangedZone /\ UnchangedPoll /\ UnchangedCleanup

\* lines 261-289: the record is created; then dnsRes = nil, attempts := 0
CreateRecord ==
    /\ pc = "create"
    /\ apiCalls' = Bump(apiCalls, "create")
    /\ namesUsed' = namesUsed \cup {<<"create", CreateName(build, subdomain)>>}
    /\ \/ /\ Fail("Cloudflare request failed")                        \* line 266
          /\ lastReply' = "request failed"
          /\ UNCHANGED <<dnsRes, attempts, poller>>
       \/ /\ Fail("Failed to decode Cloudflare response")             \* line 272
          /\ lastReply' = "undecodable"
          /\ UNCHANGED <<dnsRes, attempts, poller>>
       \/ /\ Fail("Failed to create challenge record")                \* line 276
          /\ lastReply' = "unsuccessful"
          /\ UNCHANGED <<dnsRes, attempts, poller>>
       \/ /\ dnsRes' = NilSlice
          /\ attempts' = 0
          /\ poller' = "Checking"
          /\ pc' = "poll"
          /\ lastReply' = "ok"
          /\ failure' = failure
    /\ UNCHANGED <<subdomain, rs1, rs2, err, dnsCalls, saved, lookups, delays, retried>>
    /\ UnchangedFlags /\ UnchangedZone /\ UnchangedLookup /\ UnchangedCleanup

\* variant: the budget test off by one (>= for >)
OutOfAttempts_OffByOne(n) == n >= MaxAttempts

\* line 292: the attempt budget is spent
OutOfAttempts(n) == n > MaxAttempts

\* lines 290-296: the top of the polling loop
PollTop ==
    /\ pc = "poll"
    /\ attempts' = attempts + 1
    /\ IF OutOfAttempts(attempts')
       THEN /\ Fail("Did not find expected challenge record, gave up after 30 attempts")
            /\ poller' = "GivenUp"
            /\ UNCHANGED <<lookups, dnsCalls, namesUsed>>
            /\ UnchangedLookup
       ELSE /\ Launch
            /\ lookups' = lookups + 1
            /\ namesUsed' = namesUsed \cup {<<"lookup", subdomain>>}  \* line 296
            /\ pc' = "polling"
            /\ UNCHANGED <<failure, poller>>
    /\ UNCHANGED <<subdomain, rs1, rs2, dnsRes, err, apiCalls, saved, delays, retried,
                   lastReply>>
    /\ UnchangedFlags /\ UnchangedZone /\ UnchangedCleanup

\* variant: the "no such host" exemption of line 303 left out
PollOutcome_NoSuchHostFatal(r) ==
    IF r.err = errInconsistent THEN "retry"
    ELSE IF r.err # NoErr THEN "fatal"
    ELSE IF r.res.nil \/ Len(r.res.elems) = 0 \/ ~strSliceLookup(r.res, vt) THEN "retry"
    ELSE "found"

\* lines 297-314: what the loop does with the result of a lookup
PollOutcome(r) ==
    IF r.err = errInconsistent THEN "retry"
    ELSE IF r.err # NoErr /\ ~ContainsNoSuchHost(r.err) THEN "fatal"
    ELSE IF r.res.nil \/ Len(r.res.elems) = 0 \/ ~strSliceLookup(r.res, vt) THEN "retry"
    ELSE "found"

\* lines 296-315: a polling lookup returns and the loop acts on it
PollReturn ==
    /\ pc = "polling"
    /\ \E r \in {CompareSlots(res1, err1, res2, err2)} :
          /\ Return(r)
          /\ dnsRes' = r.res /\ err' = r.err
          /\ \/ /\ PollOutcome(r) = "retry"
                /\ pc' = "sleep" /\ poller' = "WaitingRetry"
                /\ retried' = retried + 1
                /\ failure' = failure
             \/ /\ PollOutcome(r) = "fatal"
                /\ Fail("Failed lookup TXT")
                /\ poller' = "GivenUp"
                /\ UNCHANGED retried
             \/ /\ PollOutcome(r) = "found"
                /\ pc' = "save" /\ poller' = "Converged"
                /\ UNCHANGED <<failure, retried>>
    /\ UNCHANGED <<subdomain, rs1, rs2, apiCalls, dnsCalls, saved, attempts, lookups, delays,
                   namesUsed, lastReply>>
    /\ UnchangedFlags /\ UnchangedZone /\ UnchangedCleanup

\* variant: a delay that never ends
Sleep_NeverEnds == pc = "sleep" /\ UNCHANGED vars

\* lines 301 and 311: time.Sleep(1 * time.Second), then continue
Sleep ==
    /\ pc = "sleep"
    /\ delays' = delays + 1
    /\ poller' = "Checking"
    /\ pc' = "poll"
    /\ UNCHANGED <<failure, subdomain, rs1, rs2, dnsRes, err, apiCalls, dnsCalls, saved,
                   attempts, lookups, retried, namesUsed, lastReply>>
    /\ UnchangedFlags /\ UnchangedZone /\ UnchangedLookup /\ UnchangedCleanup

-----------------------------------------------------------------------------
(* part_000 lines 321-346: the credentials are saved to the renewal file *)

SaveCreds ==
    /\ pc = "save"
    /\ \/ /\ ~saveRenewCreds
          /\ pc' = "done"
          /\ UNCHANGED <<failure, saved>>
       \/ /\ saveRenewCreds
          /\ \E why \in {"Failed to load file", "Failed to create section",
                         "Failed to create key", "Failed to save file"} : Fail(why)
          /\ UNCHANGED saved
       \/ /\ saveRenewCreds
          /\ saved' = TRUE
          /\ pc' = "done"
          /\ UNCHANGED failure
    /\ UNCHANGED <<subdomain, rs1, rs2, dnsRes, err, apiCalls, dnsCalls, namesUsed,
                   lastReply>>
    /\ UnchangedFlags /\ UnchangedZone /\ UnchangedLookup /\ UnchangedPoll
    /\ UnchangedCleanup

-----------------------------------------------------------------------------
(* Specifications *)

\* the account holds the parent zone of the requested domain, or no zone
RunZones(d) == SUBSET {Truncate(d)}

Init ==
    /\ domain \in RunDomains
    /\ registered \in RunZones(domain)
    /\ InitRun

Next ==
    \/ LoadConfig
    \/ ZoneQuery
    \/ CheckNameservers
    \/ ListRecords
    \/ DeleteRecord
    \/ ResolveNameservers
    \/ InitialCall
    \/ DeadlineElapses
    \/ Task1Query
    \/ Task1Done
    \/ Task2Query
    \/ Task2Done
    \/ InitialReturn
    \/ CreateRecord
    \/ PollTop
    \/ PollReturn
    \/ Sleep
    \/ SaveCreds

Spec == Init /\ [][Next]_vars

\* the zone lookup alone (part_000 lines 104-162) for every requested domain of at
\* most MaxDomainLen characters and every set of zones among its suffixes
AllZones(d) == SUBSET DotSuffixes(d)

InitZone ==
    /\ domain \in AllDomains
    /\ registered \in AllZones(domain)
    /\ InitRun
    /\ ~cleanup /\ ~saveRenewCreds /\ ~onlySaveRenewCreds

NextZone ==
    \/ LoadConfig
    \/ ZoneQuery
    \/ CheckNameservers

SpecZone == InitZone /\ [][NextZone]_vars

\* an authentication run of part_000 without the renewal flags, with the
\* scheduling the polling loop relies on: a query
\* that was sent comes back, a goroutine that has its answer signals, a joined
\* call returns, a started delay ends, and main goes on to its next statement
InitPoll ==
    /\ Init
    /\ build = "part_000"
    /\ domain = <<"*", ".", "b", ".", "a">>
    /\ ~cleanup /\ ~onlySaveRenewCreds /\ ~saveRenewCreds

NextPoll ==
    \/ LoadConfig
    \/ ZoneQuery
    \/ CheckNameservers
    \/ ResolveNameservers
    \/ InitialCall
    \/ DeadlineElapses
    \/ Task1Query
    \/ Task1Done
    \/ Task2Query
    \/ Task2Done
    \/ InitialReturn
    \/ CreateRecord
    \/ PollTop
    \/ PollReturn
    \/ Sleep
    \/ SaveCreds

FairPoll ==
    /\ WF_vars(Task1Query) /\ WF_vars(Task1Done)
    /\ WF_vars(Task2Query) /\ WF_vars(Task2Done)
    /\ WF_vars(PollTop) /\ WF_vars(PollReturn) /\ WF_vars(Sleep)

SpecPoll == InitPoll /\ [][NextPoll]_vars /\ FairPoll

-----------------------------------------------------------------------------
(* Reading a state *)

\* number of times v occurs in the Go slice r
Count(r, v) == Cardinality({i \in 1..Len(r.elems) : r.elems[i] = v})
SameMultiset(a, b) == \A v \in Values : Count(a, v) = Count(b, v)

\* main holds the result of a finished lookupCompareTXT call, and the slots of
\* that call are still there (line 288 has not yet cleared dnsRes)
LookupReturned ==
    /\ dnsCalls > 0
    /\ pc \notin {"initial", "polling"}
    /\ ~(pc = "poll" /\ attempts = 0)

\* both nameservers answered with a list of values and no error
BothAnswered == err1 = NoErr /\ err2 = NoErr /\ ~res1.nil /\ ~res2.nil

\* the result in main's hands comes from a lookup of the polling loop
PollResultInHand == poller # "none" /\ pc \notin {"poll", "polling"}

-----------------------------------------------------------------------------
(* Claims *)

\* C1: whenever both nameservers answer without error and the two answers are
\* not the same multiset of strings (they differ in length or in an element),
\* lookupCompareTXT returns errInconsistent and no values.
C1_DifferingAnswersAreInconsistent ==
    (LookupReturned /\ BothAnswered /\ ~SameMultiset(res1, res2))
        => (err = errInconsistent /\ dnsRes.nil)

\* C2: when the polling loop has converged, the final lookup had no error on
\* either nameserver and the token is in the answer of each nameserver.
C2_ConvergedMeansBothHaveToken ==
    poller = "Converged"
        => /\ err1 = NoErr /\ err2 = NoErr
           /\ strSliceLookup(res1, vt)
           /\ strSliceLookup(res2, vt)

C2_Witness ==
    /\ poller = "Converged"
    /\ attempts > 1
    /\ res1 # res2

\* C3: the attempt counter stays in 0..31, equals the number of polling lookups
\* started while it is at most 30, no more than 30 lookups are ever started, and
\* after 30 lookups that all led to a retry the loop gives up without a 31st.
C3_AtMostThirtyLookups ==
    /\ attempts \in 0..(MaxAttempts + 1)
    /\ lookups <= MaxAttempts
    /\ (attempts <= MaxAttempts => lookups = attempts)
    /\ (attempts = MaxAttempts + 1 =>
            /\ lookups = MaxAttempts
            /\ poller = "GivenUp"
            /\ pc = "failed")
    /\ (retried = MaxAttempts /\ pc \notin {"sleep", "poll"} => poller = "GivenUp")

C3_Witness ==
    /\ poller = "GivenUp"
    /\ attempts = MaxAttempts + 1
    /\ lookups = MaxAttempts
    /\ retried = MaxAttempts

\* the outcomes the polling loop answers with a retry, as the claim lists them
RetryableResult(res, e) ==
    \/ e = errInconsistent
    \/ e = ErrNoSuchHost
    \/ (e = NoErr /\ ~strSliceLookup(res, vt))

\* C4: every retryable outcome (inconsistent, no token, record not found) is
\* followed by one delay and the next attempt, and a success with the token on
\* attempt k <= 30 ends the loop in Converged after exactly k lookups, with
\* attempt count k and k-1 delays, one after each of the k-1 retried outcomes.
C4_ConvergesOnKthAttempt ==
    /\ (PollResultInHand /\ RetryableResult(dnsRes, err))
          => \/ (pc = "sleep" /\ poller = "WaitingRetry"
                    /\ retried = lookups /\ delays = lookups - 1)
             \/ (poller = "GivenUp" /\ attempts = MaxAttempts + 1)
    /\ (pc = "poll" /\ attempts > 0) => (delays = attempts /\ retried = attempts)
    /\ (PollResultInHand /\ err = NoErr /\ strSliceLookup(dnsRes, vt))
          => /\ poller = "Converged"
             /\ attempts \in 1..MaxAttempts
             /\ lookups = attempts
             /\ retried = attempts - 1
             /\ delays = attempts - 1
    /\ poller = "Converged" => (err = NoErr /\ strSliceLookup(dnsRes, vt))

C4_Witness ==
    /\ poller = "Converged"
    /\ attempts = 3 /\ lookups = 3 /\ delays = 2 /\ retried = 2

\* C5: a polling lookup that returns an error other than errInconsistent or a
\* record-not-found error ends the loop in GivenUp at once: the run has failed,
\* no delay follows the error and no further lookup is started.
C5_FatalErrorGivesUp ==
    (PollResultInHand /\ err \notin {NoErr, errInconsistent, ErrNoSuchHost})
        => /\ poller = "GivenUp"
           /\ pc = "failed"
           /\ failure = "Failed lookup TXT"
           /\ lookups = attempts
           /\ delays = lookups - 1
           /\ retried = lookups - 1

C5_Witness ==
    /\ poller = "GivenUp"
    /\ err = ErrTimeout
    /\ attempts = 2

\* C6: when both nameservers answer without error with non-empty answers that
\* are the same multiset, in any order, lookupCompareTXT succeeds and returns
\* nameserver 1's answer.
C6_SameMultisetSucceeds ==
    (LookupReturned /\ BothAnswered /\ Len(res1.elems) > 0
        /\ Len(res1.elems) = Len(res2.elems) /\ SameMultiset(res1, res2))
        => (err = NoErr /\ dnsRes = res1)

C6_Witness ==
    /\ LookupReturned /\ BothAnswered
    /\ Len(res1.elems) = 2
    /\ SameMultiset(res1, res2)
    /\ res1 # res2
    /\ err = NoErr /\ dnsRes = res1

-----------------------------------------------------------------------------
(* Domain names by their labels, to read the zone lookup *)

DotPositions(s) == {i \in 1..Len(s) : s[i] = "."}
NumLabels(s) == Cardinality(DotPositions(s)) + 1

\* s without its k leftmost labels (k < NumLabels(s))
DropLabels(s, k) ==
    IF k = 0 THEN s
    ELSE LET p == CHOOSE i \in DotPositions(s) :
                      Cardinality({j \in DotPositions(s) : j <= i}) = k
         IN SubSeq(s, p + 1, Len(s))

\* the requested domain, then each shorter suffix, down to the last label
SuffixChain(d) == [k \in 1..NumLabels(d) |-> DropLabels(d, k - 1)]

IsPrefix(a, b) == Len(a) <= Len(b) /\ SubSeq(b, 1, Len(a)) = a

Matched == Len(zonesResult) > 0
ZoneNotFound == pc = "failed" /\ failure = "Zone not found in Cloudflare account"

\* C7: the zone lookup asks for the requested domain, then for each suffix with
\* the leftmost label removed, in that order; every name asked for before the
\* last had no zone (nothing is asked after the first match); the zone taken is
\* the last name asked for, and no longer suffix of the domain has a zone.
C7_SuffixesInOrderStopAtFirstMatch ==
    /\ IsPrefix(zoneQueries, SuffixChain(domain))
    /\ \A i \in 1..(Len(zoneQueries) - 1) : zoneQueries[i] \notin registered
    /\ pc = "zone" =>
          /\ zoneDomain = SuffixChain(domain)[Len(zoneQueries) + 1]
          /\ \A i \in 1..Len(zoneQueries) : zoneQueries[i] \notin registered
    /\ Matched =>
          /\ zonesResult[1].Name = zoneQueries[Len(zoneQueries)]
          /\ zonesResult[1].Name \in registered
          /\ \A k \in 1..NumLabels(domain) :
                SuffixChain(domain)[k] \in registered => k >= Len(zoneQueries)

\* a.a.a.a with only a.a registered: a.a.a.a, a.a.a, a.a asked for, a.a taken
C7_Witness ==
    /\ domain = <<"a", ".", "a", ".", "a", ".", "a">>
    /\ registered = {<<"a", ".", "a">>}
    /\ Matched
    /\ zoneQueries = <<domain, <<"a", ".", "a", ".", "a">>, <<"a", ".", "a">>>>
    /\ zonesResult[1].Name = <<"a", ".", "a">>

\* C8: for a requested domain of two or more labels, every name the zone lookup
\* asks for has two or more labels, and when no suffix of the domain has a zone
\* and no provider request fails, the lookup ends with "Zone not found".
C8_NeverAsksForSingleLabel ==
    NumLabels(domain) >= 2 =>
        /\ \A i \in 1..Len(zoneQueries) : NumLabels(zoneQueries[i]) >= 2
        /\ (/\ pc \notin {"start", "zone"}
            /\ failure \notin {"env not set", "renewal file not found", "credentials",
                               "Cloudflare request failed",
                               "Failed to decode Cloudflare response",
                               "Failed to look up zone"}
            /\ registered \cap DotSuffixes(domain) = {})
              => /\ ZoneNotFound
                 /\ Len(zoneQueries) = NumLabels(domain) - 1

\* aa.a with no zone: aa.a asked for, a alone never
C8_Witness ==
    /\ domain = <<"a", "a", ".", "a">>
    /\ registered = {}
    /\ ZoneNotFound
    /\ zoneQueries = <<domain>>

\* C9: a matched zone with fewer than two nameservers ends the run with
\* "Could not find two or more nameservers" before any DNS lookup and any record
\* list, create or delete, and with no zone query after the match; with two or
\* more, every TXT query goes to the first or the second listed nameserver, the
\* first through resolver 1 and the second through resolver 2.
C9_TwoNameserversOrFail ==
    /\ pc = "nscheck" => (dnsCalls = 0 /\ apiCalls = NoCalls /\ queried = {})
    /\ (Matched /\ Len(zonesResult[1].Nameservers) < 2 /\ pc # "nscheck")
          => /\ pc = "failed"
             /\ failure = "Could not find two or more nameservers in zone"
             /\ dnsCalls = 0 /\ queried = {}
             /\ apiCalls = NoCalls
             /\ zoneQueries[Len(zoneQueries)] = zonesResult[1].Name
    /\ dnsCalls > 0
          => /\ Matched /\ Len(zonesResult[1].Nameservers) >= 2
             /\ rs1 = zonesResult[1].Nameservers[1]
             /\ rs2 = zonesResult[1].Nameservers[2]
             /\ queried \subseteq {rs1, rs2}
             /\ (LookupReturned => queried = {rs1, rs2})

C9_Witness ==
    /\ Matched
    /\ Len(zonesResult[1].Nameservers) = 1
    /\ pc = "failed"
    /\ failure = "Could not find two or more nameservers in zone"

\* the goroutines of the call in progress that have not signalled yet
Unsignalled == Cardinality({i \in {1, 2} : (IF i = 1 THEN t1 ELSE t2) \in {"query", "signal"}})

\* C10: main reads the slots only when both goroutines have finished; the
\* barrier counts exactly the goroutines that have not signalled; a goroutine
\* that has not written leaves its slot as it was made, whatever the other has
\* done; and outside a lookupCompareTXT call no goroutine is running.
C10_JoinBeforeRead ==
    /\ slotReads = 0
    /\ wg = Unsignalled
    /\ t1 = "query" => (res1 = NilSlice /\ err1 = NoErr)
    /\ t2 = "query" => (res2 = NilSlice /\ err2 = NoErr)
    /\ pc \notin {"initial", "polling"} => (t1 \in {"none", "exit"} /\ t2 \in {"none", "exit"})

\* goroutine 2 finished first, goroutine 1 has not written yet
C10_Witness ==
    /\ pc = "polling"
    /\ t2 = "exit" /\ t1 = "query"
    /\ wg = 1
    /\ res2 # NilSlice

\* C11: when the shared deadline of a lookupCompareTXT call has elapsed, the
\* call can return at once: its return does not wait for a query that is still
\* out or for a goroutine that has not signalled yet.
C11_ReturnNotBlockedPastDeadline ==
    (pc \in {"initial", "polling"} /\ deadline = "elapsed") => WaitPasses

\* C12: a record-create request is never the answer to an initial lookup that
\* came back with errInconsistent (between the create request and the first
\* polling lookup err still holds the result of the initial lookup).
C12_NoCreateAfterInconsistent ==
    (apiCalls.create > 0 /\ lookups = 0) => err # errInconsistent

\* C13: whenever a lookup, initial or polling, has returned an error other than
\* errInconsistent or "no such host", the run has failed with a reported error.
C13_FatalLookupErrorHaltsRun ==
    (LookupReturned /\ err \notin {NoErr, errInconsistent, ErrNoSuchHost})
        => (pc = "failed" /\ failure # "none")

\* the name the claim gives for requested domain d: the label, a dot, and d
\* without a leading "*."
ExpectedName(d) ==
    chRecName \o <<".">> \o
        (IF Len(d) >= 2 /\ d[1] = "*" /\ d[2] = "." THEN SubSeq(d, 3, Len(d)) ELSE d)

\* C14: every name handed to a lookup, to the record creation or to the cleanup
\* listing is _acme-challenge.D for requested domain D or *.D, whichever zone
\* suffix was matched.
C14_SameChallengeNameEverywhere ==
    \A u \in namesUsed : u[2] = ExpectedName(domain)

\* the initial lookup has returned, no polling lookup has been made since, and
\* it returned the expected token (res1 and err still hold what it returned)
InitialFoundToken ==
    /\ dnsCalls >= 1 /\ lookups = 0 /\ pc # "initial"
    /\ err = NoErr /\ strSliceLookup(res1, vt)

\* C15: the order of an authentication run. No DNS lookup before a zone with
\* two nameservers is selected; at most one create request, issued only after
\* the initial lookup has returned and only if it did not return the token; no
\* polling lookup unless the create request succeeded; and an initial lookup
\* that returns the token ends the run successfully with no create request and
\* no polling.
C15_AuthRunOrder ==
    /\ dnsCalls > 0 => (Matched /\ Len(zonesResult[1].Nameservers) >= 2)
    /\ apiCalls.create <= 1
    /\ pc = "create" => (apiCalls.create = 0 /\ dnsCalls = 1 /\ ~InitialFoundToken)
    /\ apiCalls.create > 0 => (dnsCalls >= 1 /\ pc # "initial" /\ ~cleanup)
    /\ (apiCalls.create > 0 /\ lookups = 0) => ~InitialFoundToken
    /\ lookups > 0 => (apiCalls.create = 1 /\ lastReply = "ok" /\ dnsCalls = lookups + 1)
    /\ pc \in {"poll", "polling", "sleep"} => (apiCalls.create = 1 /\ lastReply = "ok")
    /\ InitialFoundToken
          => /\ pc = "done" /\ failure = "none"
             /\ apiCalls.create = 0 /\ poller = "none" /\ attempts = 0

\* the record was created after an initial lookup without the token, and the
\* second polling lookup found it
C15_Witness ==
    /\ apiCalls.create = 1
    /\ lookups = 2
    /\ poller = "Converged"
    /\ pc = "done"

\* the polling loop is in one of its terminal states
PollerTerminal == poller \in {"Converged", "GivenUp"}

\* C16: with every query, join and delay completing, a polling loop that has
\* started reaches Converged or GivenUp, whatever the nameservers answer; and
\* in a terminal state no lookup is made, no delay is taken and the attempt
\* counter and the poller state stay as they are.
C16_PollingTerminates ==
    /\ (poller \in {"Checking", "WaitingRetry"}) ~> PollerTerminal
    /\ [][PollerTerminal => UNCHANGED <<poller, attempts, lookups, delays, retried, dnsCalls>>]_vars

\* the loop gave up after retrying every one of its attempts
C16_Witness ==
    /\ poller = "GivenUp"
    /\ lookups = MaxAttempts /\ delays = MaxAttempts
    /\ pc = "failed"

\* the most provider queries the zone loop may issue for requested domain d
MaxZoneQueries(d) == IF NumLabels(d) >= 2 THEN NumLabels(d) - 1 ELSE 1

\* the last zone request failed in transport or was flagged unsuccessful
ZoneRequestFailed ==
    /\ apiCalls = NoCalls /\ Len(zoneQueries) > 0
    /\ lastReply \in {"request failed", "unsuccessful"}

\* the zone loop was entered and main has left it
ZoneLoopEnded ==
    /\ pc \notin {"start", "zone"}
    /\ failure \notin {"env not set", "renewal file not found", "credentials"}

\* C17: every query of the zone loop after the first is for a name with one
\* label fewer than the one before; a domain with n >= 2 labels gets at most
\* n-1 queries and exactly n-1 when the loop ends with "Zone not found", a
\* single-label domain exactly one; a failed or unsuccessful request ends the
\* run at once, with no truncation and no match.
C17_ZoneLoopTerminates ==
    /\ \A i \in 1..(Len(zoneQueries) - 1) :
          NumLabels(zoneQueries[i + 1]) = NumLabels(zoneQueries[i]) - 1
    /\ pc = "zone" => NumLabels(zoneDomain) = NumLabels(domain) - Len(zoneQueries)
    /\ Len(zoneQueries) <= MaxZoneQueries(domain)
    /\ ZoneNotFound => Len(zoneQueries) = MaxZoneQueries(domain)
    /\ (NumLabels(domain) = 1 /\ ZoneLoopEnded) => Len(zoneQueries) = 1
    /\ ZoneRequestFailed
          => /\ pc = "failed"
             /\ failure \in {"Cloudflare request failed", "Failed to look up zone"}
             /\ zoneDomain = zoneQueries[Len(zoneQueries)]
             /\ ~Matched

\* a four-label domain none of whose suffixes is a zone: three queries
C17_Witness ==
    /\ domain = <<"a", ".", "a", ".", "a", ".", "a">>
    /\ ZoneNotFound
    /\ Len(zoneQueries) = 3

\* C18: when both queries of a lookupCompareTXT call came back without error,
\* the call returns the values or errInconsistent and no other error, also
\* when an answer carries no values.
C18_NoErrorMeansValuesOrInconsistent ==
    (LookupReturned /\ err1 = NoErr /\ err2 = NoErr) => err \in {NoErr, errInconsistent}

\* C19: when a query of a lookupCompareTXT call failed, the call returns no
\* values and an error: the error of nameserver 1 if nameserver 1 failed,
\* otherwise the error of nameserver 2 (never errInconsistent or a "did not
\* respond" error, whatever the other answer holds). So a polling lookup with
\* "no such host" from nameserver 1 and another error from nameserver 2 is
\* retried.
C19_FirstErrorWins ==
    /\ (LookupReturned /\ (err1 # NoErr \/ err2 # NoErr))
          => /\ dnsRes.nil /\ Len(dnsRes.elems) = 0
             /\ err = (IF err1 # NoErr THEN err1 ELSE err2)
    /\ (PollResultInHand /\ err1 = ErrNoSuchHost /\ err2 \notin {NoErr, ErrNoSuchHost})
          => \/ (pc = "sleep" /\ poller = "WaitingRetry" /\ failure = "none")
             \/ (poller = "GivenUp" /\ attempts = MaxAttempts + 1)

\* nameserver 1: no such host, nameserver 2: another error; the loop waits to retry
C19_Witness ==
    /\ pc = "sleep" /\ poller = "WaitingRetry"
    /\ err1 = ErrNoSuchHost
    /\ err2 = ErrOther
    /\ err = ErrNoSuchHost

\* C20: when a request to the provider (zone list, record list, record create,
\* record delete) failed in transport, the run has ended with the reported
\* error "Cloudflare request failed" and nothing was done with a response: no
\* record deleted after a failed record list.
C20_TransportFailureIsReported ==
    lastReply = "request failed"
        => /\ pc = "failed"
           /\ failure = "Cloudflare request failed"
           /\ (apiCalls.list > 0 /\ delIdx = 0 => apiCalls.delete = 0)

\* the latest delete request failed, was undecodable or was reported unsuccessful
DeleteFailed == apiCalls.delete > 0 /\ lastReply # "ok"

\* C21: a cleanup run makes no DNS lookup and creates no record; its delete
\* requests are for the records of the listing, one each, in list order; the
\* first delete that fails or is reported unsuccessful ends the run, so the
\* records after it get no request; a run that listed its records and deleted
\* without failure has asked for every one of them. An authentication run
\* issues no record list and no delete request.
C21_CleanupFrame ==
    /\ cleanup => /\ dnsCalls = 0 /\ lookups = 0 /\ queried = {}
                  /\ apiCalls.create = 0
                  /\ poller = "none"
    /\ apiCalls.list <= 1
    /\ apiCalls.delete = Len(deleteReqs)
    /\ Len(deleteReqs) <= Len(records)
    /\ deleteReqs = SubSeq(records, 1, Len(deleteReqs))
    /\ apiCalls.delete > 0 => apiCalls.list = 1
    /\ DeleteFailed => (pc = "failed" /\ delIdx = Len(deleteReqs) - 1)
    /\ ~DeleteFailed => delIdx = Len(deleteReqs)
    /\ pc = "delete" => (~DeleteFailed /\ Len(deleteReqs) < Len(records))
    /\ (apiCalls.list = 1 /\ lastReply = "ok" /\ pc # "delete") => deleteReqs = records
    /\ ~cleanup => (apiCalls.list = 0 /\ apiCalls.delete = 0 /\ records = <<>>)

\* two records listed, the delete of the first one failed: no request for the second
C21_Witness ==
    /\ cleanup
    /\ Len(records) = 2
    /\ deleteReqs = <<records[1]>>
    /\ pc = "failed"
    /\ failure = "Failed to delete challenge record"

\* C22: with -save-renew-creds set, a run that has ended without a reported
\* error has written the credentials to the renewal file, whichever way it
\* went; a run that has ended with a reported error has not written them.
C22_SavedIffNoError ==
    /\ (saveRenewCreds /\ pc = "done" /\ failure = "none") => saved
    /\ (pc = "failed" \/ failure # "none") => ~saved

====
